---- MODULE Spec2Model ----
(***************************************************************************)
(* gatttool (attrib/gatttool.c): the GATT client's orchestration of ATT    *)
(* transactions.  One state machine: main() sets up the connection and the *)
(* two idle sources, the main loop dispatches the idle callbacks, the      *)
(* responses to the outstanding request and the unsolicited events, each   *)
(* handler running to completion.                                          *)
(*                                                                         *)
(* The requested operation's console output and the requests handed to    *)
(* the transport are recorded, in order, in the history variable log; the  *)
(* event handler's output and confirmations in the history variable evlog. *)
(***************************************************************************)
EXTENDS Integers, Sequences, FiniteSets, TLC

(* ------------------------------ bounds -------------------------------- *)
\* attribute handles 1..MaxLow and the topmost handle exist on the server
MaxLow == 2
\* entries in one list response
MaxEntries == 2
\* requests the server answers in one run
MaxPages == 2
\* unsolicited PDUs the event handler is given in one run
MaxEvents == 2

(* --------------------------- program constants ------------------------ *)
UINT16_MAX == 65535
ATT_MIN_MTU_L2CAP == 48
ATT_ECODE_INVALID_HANDLE == 1
ATT_ECODE_ATTR_NOT_FOUND == 10

\* an int converted to uint16_t
u16(x) == x % (UINT16_MAX + 1)

Handles == (1..MaxLow) \cup {UINT16_MAX}

Modes == {"none", "primary", "characteristics", "char_read", "char_write", "char_desc"}

\* opt_value: NULL, or a string of hexadecimal digits (each digit its value)
NullValue == [null |-> TRUE, str |-> <<>>]
StrValue(s) == [null |-> FALSE, str |-> s]
\* the MTU the channel has negotiated: the smallest the transport exposes
NegotiatedMTU == ATT_MIN_MTU_L2CAP

\* a value of NegotiatedMTU - 2 bytes, one more than a write command can carry
LongValue == StrValue([i \in 1..(2 * (NegotiatedMTU - 2)) |-> i % 16])

OptValues == {NullValue, StrValue(<<>>), StrValue(<<7>>), StrValue(<<0, 1>>),
              StrValue(<<1, 2, 10, 11>>), LongValue}

(* ------------------------------- records ------------------------------ *)
\* a line of the history: a PDU sent, a result printed or a failure reported
Line(k, a, b) == [k |-> k, a |-> a, b |-> b]

\* the outstanding request: opcode, body (the window or the handle) and continuation
Req(op, start, end, func) == [op |-> op, start |-> start, end |-> end, func |-> func]
NoReq == Req("none", 0, 0, "none")

\* struct characteristic_data, and its freed state
NoCharData == [alloc |-> FALSE, start |-> 0, end |-> 0]

RequestOps == {"READ_BY_GROUP_REQ", "READ_BY_TYPE_REQ", "FIND_INFO_REQ", "READ_REQ"}

VARIABLES
    opt_mode,      \* which of opt_primary .. opt_char_desc selects the callback
    opt_listen,
    opt_start,
    opt_end,
    opt_handle,
    opt_value,
    opt_mtu,
    pc,            \* main(): "main", "running" (inside g_main_loop_run), "exited"
    ret,           \* main()'s exit code
    idle,          \* the idle sources not yet dispatched, in g_idle_add order
    quit,          \* g_main_loop_quit() was called
    registered,    \* the notification and indication handlers are registered
    pending,       \* the dispatcher's outstanding request
    notify,        \* a write command's destroy notification is due
    char_data,     \* the characteristic discovery's user data
    nevents,       \* unsolicited PDUs handled so far
    log,           \* the history of the requested operation
    evlog,         \* the history of the event handler
    cancelled      \* the caller has abandoned the discovery: the length of log then

opts == <<opt_mode, opt_listen, opt_start, opt_end, opt_handle, opt_value, opt_mtu>>
vars == <<opt_mode, opt_listen, opt_start, opt_end, opt_handle, opt_value, opt_mtu,
          pc, ret, idle, quit, registered, pending, notify, char_data, nevents, log,
          evlog, cancelled>>

(* ------------------------------ history ------------------------------- *)
RECURSIVE CountIf(_, _)
CountIf(s, ks) ==
    IF s = <<>> THEN 0
    ELSE (IF Head(s).k \in ks THEN 1 ELSE 0) + CountIf(Tail(s), ks)

NumRequests(lg) == CountIf(lg, RequestOps)

(* ------------------------------- server ------------------------------- *)
\* The entries a server can return for the window [s, e]: attributes whose handle
\* lies in the window; a group's end handle is not below its start.
\* A window that starts at 0 or after its end is invalid and holds no entry.
InWindow(h, s, e) == 1 <= s /\ s <= h /\ h <= e

GroupEntries(s, e) ==
    {[a |-> w[1], b |-> w[2]] :
        w \in {v \in Handles \X Handles : InWindow(v[1], s, e) /\ v[1] <= v[2]}}

AttrEntries(s, e) == {[a |-> x, b |-> x] : x \in {h \in Handles : InWindow(h, s, e)}}

\* lists of at most n entries of E in increasing handle order, none below lo
RECURSIVE ListsFrom(_, _, _)
ListsFrom(E, lo, n) ==
    {<<>>} \cup
    (IF n = 0 THEN {}
     ELSE UNION {{<<x>> \o t : t \in ListsFrom(E, x.b + 1, n - 1)} :
                 x \in {y \in E : y.a >= lo}})

ErrorCodes == {ATT_ECODE_INVALID_HANDLE, ATT_ECODE_ATTR_NOT_FOUND}

ErrorResp(code) == [status |-> code, ok |-> TRUE, list |-> <<>>]
MalformedResp == [status |-> 0, ok |-> FALSE, list |-> <<>>]
ListResp(l) == [status |-> 0, ok |-> TRUE, list |-> l]

\* What the server may answer to a request: an Error Response, a PDU the decoder
\* rejects, or a response (for the discovery requests, a list of entries found
\* in the requested window; the list of a degenerate PDU is empty).
Responses(req) ==
    {ErrorResp(c) : c \in ErrorCodes} \cup {MalformedResp} \cup
    (CASE req.op = "READ_BY_GROUP_REQ" ->
            {ListResp(l) : l \in ListsFrom(GroupEntries(req.start, req.end), 1, MaxEntries)}
       [] req.op \in {"READ_BY_TYPE_REQ", "FIND_INFO_REQ"} ->
            {ListResp(l) : l \in ListsFrom(AttrEntries(req.start, req.end), 1, MaxEntries)}
       [] OTHER -> {ListResp(<<>>)})

EventOps == {"HANDLE_NOTIFY", "HANDLE_IND", "OTHER"}

(* ----------------------------- dispatcher ----------------------------- *)
\* g_attrib_send: a request needs the free slot of the outstanding request and
\* takes it; a PDU that expects no response (a command, a confirmation) is
\* transmitted whatever the slot holds.  Yields the slot and the history after.
g_attrib_send(p, lg, r) ==
    IF r.op \in RequestOps /\ p # NoReq
    THEN [pending |-> p, log |-> Append(lg, Line("BusyError", r.start, r.end))]
    ELSE [pending |-> IF r.op \in RequestOps THEN r ELSE p,
          log |-> Append(lg, Line(r.op, r.start, r.end))]

gatt_discover_primary(p, lg, start, end, func) ==
    g_attrib_send(p, lg, Req("READ_BY_GROUP_REQ", start, end, func))

gatt_discover_char(p, lg, start, end, func) ==
    g_attrib_send(p, lg, Req("READ_BY_TYPE_REQ", start, end, func))

gatt_find_info(p, lg, start, end, func) ==
    g_attrib_send(p, lg, Req("FIND_INFO_REQ", start, end, func))

gatt_read_char(p, lg, handle, func) ==
    g_attrib_send(p, lg, Req("READ_REQ", handle, handle, func))

gatt_write_cmd(p, lg, handle, len) ==
    g_attrib_send(p, lg, Req("WRITE_CMD", handle, len, "none"))

\* enc_confirmation: the length of the encoded PDU, the opcode alone
enc_confirmation == 1

(* -------------------------------- main -------------------------------- *)
Init ==
    /\ opt_mode \in Modes
    /\ opt_listen \in BOOLEAN
    /\ opt_mtu \in {0, ATT_MIN_MTU_L2CAP - 1}
    /\ IF opt_mode \in {"primary", "characteristics", "char_desc"}
       THEN opt_start \in 1..MaxLow /\ opt_end \in (1..MaxLow) \cup {UINT16_MAX}
       ELSE opt_start = 1 /\ opt_end = UINT16_MAX
    /\ IF opt_mode \in {"char_read", "char_write"}
       THEN opt_handle \in {-1, 0, 1}
       ELSE opt_handle = -1
    /\ IF opt_mode = "char_write" THEN opt_value \in OptValues ELSE opt_value = NullValue
    /\ pc = "main"
    /\ ret = 0
    /\ idle = <<>>
    /\ quit = FALSE
    /\ registered = FALSE
    /\ pending = NoReq
    /\ notify = FALSE
    /\ char_data = NoCharData
    /\ nevents = 0
    /\ log = <<>>
    /\ evlog = <<>>
    /\ cancelled = 0

\* do_connect: NULL (FALSE) for an MTU below the minimum, else what bt_io_connect gives
do_connect(connects) ==
    IF opt_mtu # 0 /\ opt_mtu < ATT_MIN_MTU_L2CAP THEN FALSE ELSE connects

\* mutant: the selected callback is added to the main loop before listen_start
main_callbackFirst ==
    /\ pc = "main"
    /\ \E connects \in BOOLEAN :
        IF opt_mode = "none" \/ ~do_connect(connects)
        THEN /\ ret' = 1
             /\ pc' = "exited"
             /\ UNCHANGED idle
        ELSE /\ idle' = <<opt_mode>> \o (IF opt_listen THEN <<"listen_start">> ELSE <<>>)
             /\ pc' = "running"
             /\ UNCHANGED ret
    /\ UNCHANGED <<opts, cancelled, quit, registered, pending, notify, char_data, nevents, log, evlog>>

\* main() up to g_main_loop_run
main ==
    /\ pc = "main"
    /\ \E connects \in BOOLEAN :
        IF opt_mode = "none" \/ ~do_connect(connects)
        THEN /\ ret' = 1
             /\ pc' = "exited"
             /\ UNCHANGED idle
        ELSE /\ idle' = (IF opt_listen THEN <<"listen_start">> ELSE <<>>) \o <<opt_mode>>
             /\ pc' = "running"
             /\ UNCHANGED ret
    /\ UNCHANGED <<opts, cancelled, quit, registered, pending, notify, char_data, nevents, log, evlog>>

\* main() after g_main_loop_run returns
main_exit ==
    /\ pc = "running"
    /\ quit
    /\ pc' = "exited"
    /\ registered' = FALSE
    /\ UNCHANGED <<opts, cancelled, ret, idle, quit, pending, notify, char_data, nevents, log, evlog>>

\* the main loop dispatches a source
Running == pc = "running" /\ ~quit

\* the "done:" label of the callbacks
CallbackDone == quit' = (quit \/ ~opt_listen)

(* ------------------------- primary services --------------------------- *)
\* the start of the follow-up request, from the handle the last response ended at
NextStart(last) == u16(last + 1)

\* mutants: no code ends the discovery silently; every error code does
IsEndOfRange_never(status) == FALSE
IsEndOfRange_anyError(status) == status # 0

\* the error code that ends a discovery without a failure
IsEndOfRange(status) == status = ATT_ECODE_ATTR_NOT_FOUND

\* the history once the dispatcher has received the response: its status and
\* the number of entries decoded from it (-1 when the decoder rejects it)
Rcvd(resp) ==
    Append(log, Line("rsp", resp.status, IF resp.ok THEN Len(resp.list) ELSE -1))

\* the records a callback prints for the entries of a list
Printed(k, list) == [i \in 1..Len(list) |-> Line(k, list[i].a, list[i].b)]

listen_start ==
    /\ Running
    /\ idle # <<>> /\ Head(idle) = "listen_start"
    /\ idle' = Tail(idle)
    /\ registered' = TRUE
    /\ UNCHANGED <<opts, cancelled, pc, ret, quit, pending, notify, char_data, nevents, log, evlog>>

\* mutant: the window is checked before anything is sent
primary_rangeChecked ==
    /\ Running
    /\ idle # <<>> /\ Head(idle) = "primary"
    /\ idle' = Tail(idle)
    /\ IF opt_start > opt_end
       THEN log' = Append(log, Line("InvalidRange", opt_start, opt_end)) /\ UNCHANGED pending
       ELSE LET r == gatt_discover_primary(pending, log, u16(opt_start), u16(opt_end),
                                           "primary_cb")
            IN  pending' = r.pending /\ log' = r.log
    /\ UNCHANGED <<opts, cancelled, pc, ret, quit, registered, notify, char_data, nevents, evlog>>

primary ==
    /\ Running
    /\ idle # <<>> /\ Head(idle) = "primary"
    /\ idle' = Tail(idle)
    /\ LET r == gatt_discover_primary(pending, log, u16(opt_start), u16(opt_end),
                                      "primary_cb")
       IN  pending' = r.pending /\ log' = r.log
    /\ UNCHANGED <<opts, cancelled, pc, ret, quit, registered, notify, char_data, nevents, evlog>>

\* primary_cb, invoked with the response to the request that was outstanding
primary_cb(resp) ==
    LET end == IF resp.list = <<>> THEN 0 ELSE resp.list[Len(resp.list)].b
    IN
    IF IsEndOfRange(resp.status)
    THEN pending' = NoReq /\ log' = Rcvd(resp) /\ CallbackDone
    ELSE IF resp.status # 0
    THEN /\ pending' = NoReq
         /\ log' = Append(Rcvd(resp), Line("err", resp.status, 0))
         /\ CallbackDone
    ELSE IF ~resp.ok
    THEN pending' = NoReq /\ log' = Rcvd(resp) /\ CallbackDone
    ELSE LET r == gatt_discover_primary(NoReq, Rcvd(resp) \o Printed("svc", resp.list),
                                        NextStart(end), u16(opt_end), "primary_cb")
         IN  pending' = r.pending /\ log' = r.log /\ UNCHANGED quit

(* --------------------------- characteristics -------------------------- *)
characteristics ==
    /\ Running
    /\ idle # <<>> /\ Head(idle) = "characteristics"
    /\ idle' = Tail(idle)
    /\ char_data' = [alloc |-> TRUE, start |-> u16(opt_start), end |-> u16(opt_end)]
    /\ LET r == gatt_discover_char(pending, log, u16(opt_start), u16(opt_end),
                                   "char_discovered_cb")
       IN  pending' = r.pending /\ log' = r.log
    /\ UNCHANGED <<opts, cancelled, pc, ret, quit, registered, notify, nevents, evlog>>

\* mutant: the callback looks for the caller's cancellation before it goes on
char_discovered_cb_cancellable(resp) ==
    LET last == IF resp.list = <<>> THEN char_data.start
                ELSE resp.list[Len(resp.list)].a
    IN
    IF cancelled > 0 \/ resp.status # 0
    THEN /\ pending' = NoReq
         /\ log' = IF resp.status = 0 \/ IsEndOfRange(resp.status) THEN Rcvd(resp)
                   ELSE Append(Rcvd(resp), Line("err", resp.status, 0))
         /\ char_data' = NoCharData
         /\ CallbackDone
    ELSE IF ~resp.ok
    THEN pending' = NoReq /\ log' = Rcvd(resp) /\ UNCHANGED <<char_data, quit>>
    ELSE LET r == gatt_discover_char(NoReq, Rcvd(resp) \o Printed("chr", resp.list),
                                     NextStart(last), char_data.end,
                                     "char_discovered_cb")
         IN  pending' = r.pending /\ log' = r.log /\ UNCHANGED <<char_data, quit>>

char_discovered_cb(resp) ==
    LET last == IF resp.list = <<>> THEN char_data.start
                ELSE resp.list[Len(resp.list)].a
    IN
    IF IsEndOfRange(resp.status)
    THEN pending' = NoReq /\ log' = Rcvd(resp) /\ char_data' = NoCharData /\ CallbackDone
    ELSE IF resp.status # 0
    THEN /\ pending' = NoReq
         /\ log' = Append(Rcvd(resp), Line("err", resp.status, 0))
         /\ char_data' = NoCharData
         /\ CallbackDone
    ELSE IF ~resp.ok
    THEN pending' = NoReq /\ log' = Rcvd(resp) /\ UNCHANGED <<char_data, quit>>
    ELSE LET r == gatt_discover_char(NoReq, Rcvd(resp) \o Printed("chr", resp.list),
                                     NextStart(last), char_data.end,
                                     "char_discovered_cb")
         IN  pending' = r.pending /\ log' = r.log /\ UNCHANGED <<char_data, quit>>

\* The caller abandons the characteristic discovery between two of its steps.
\* gatttool has no operation for it: nothing of the program changes.
cancel ==
    /\ Running
    /\ char_data.alloc
    /\ cancelled = 0
    /\ cancelled' = Len(log)
    /\ UNCHANGED <<opts, pc, ret, idle, quit, registered, pending, notify, char_data,
                   nevents, log, evlog>>

(* ------------------------------ descriptors --------------------------- *)
characteristics_desc ==
    /\ Running
    /\ idle # <<>> /\ Head(idle) = "char_desc"
    /\ idle' = Tail(idle)
    /\ LET r == gatt_find_info(pending, log, u16(opt_start), u16(opt_end), "char_desc_cb")
       IN  pending' = r.pending /\ log' = r.log
    /\ UNCHANGED <<opts, cancelled, pc, ret, quit, registered, notify, char_data, nevents, evlog>>

char_desc_cb(resp) ==
    /\ pending' = NoReq
    /\ log' = IF resp.status # 0 THEN Append(Rcvd(resp), Line("err", resp.status, 0))
              ELSE IF ~resp.ok THEN Rcvd(resp)
              ELSE Rcvd(resp) \o Printed("dsc", resp.list)
    /\ CallbackDone

(* ------------------------------ read, write --------------------------- *)
characteristics_read ==
    /\ Running
    /\ idle # <<>> /\ Head(idle) = "char_read"
    /\ idle' = Tail(idle)
    /\ IF opt_handle <= 0
       THEN /\ log' = Append(log, Line("argerr", 1, 0))
            /\ quit' = TRUE
            /\ UNCHANGED pending
       ELSE /\ LET r == gatt_read_char(pending, log, u16(opt_handle), "char_read_cb")
               IN  pending' = r.pending /\ log' = r.log
            /\ UNCHANGED quit
    /\ UNCHANGED <<opts, cancelled, pc, ret, registered, notify, char_data, nevents, evlog>>

\* mutant: a failed read is tried again
char_read_cb_retry(resp) ==
    IF resp.status # 0
    THEN LET r == gatt_read_char(NoReq, Rcvd(resp), u16(opt_handle), "char_read_cb")
         IN  pending' = r.pending /\ log' = r.log /\ UNCHANGED quit
    ELSE /\ pending' = NoReq
         /\ log' = Append(Rcvd(resp), Line(IF resp.ok THEN "val" ELSE "protoerr", 0, 0))
         /\ CallbackDone

char_read_cb(resp) ==
    /\ pending' = NoReq
    /\ log' = IF resp.status # 0 THEN Append(Rcvd(resp), Line("err", resp.status, 0))
              ELSE IF ~resp.ok THEN Append(Rcvd(resp), Line("protoerr", 0, 0))
              ELSE Append(Rcvd(resp), Line("val", 0, 0))
    /\ CallbackDone

\* attr_data_from_string: one byte for every two hexadecimal digits
attr_data_from_string(str) ==
    [i \in 1..(Len(str) \div 2) |-> 16 * str[2 * i - 1] + str[2 * i]]

characteristics_write ==
    /\ Running
    /\ idle # <<>> /\ Head(idle) = "char_write"
    /\ idle' = Tail(idle)
    /\ LET value == attr_data_from_string(opt_value.str)
           \* 1: a valid handle is required, 2: a value is required, 3: invalid value
           error == IF opt_handle <= 0 THEN 1
                    ELSE IF opt_value.null \/ opt_value.str = <<>> THEN 2
                    ELSE IF Len(value) = 0 THEN 3
                    ELSE 0
       IN  IF error # 0
           THEN /\ log' = Append(log, Line("argerr", error, 0))
                /\ quit' = TRUE
                /\ UNCHANGED <<pending, notify>>
           ELSE /\ LET r == gatt_write_cmd(pending, log, u16(opt_handle), Len(value))
                   IN  pending' = r.pending /\ log' = r.log
                /\ notify' = TRUE
                /\ UNCHANGED quit
    /\ UNCHANGED <<opts, cancelled, pc, ret, registered, char_data, nevents, evlog>>

\* the write command's destroy notification, once the command has been sent
mainloop_quit ==
    /\ Running
    /\ notify
    /\ notify' = FALSE
    /\ quit' = TRUE
    /\ UNCHANGED <<opts, cancelled, pc, ret, idle, registered, pending, char_data, nevents, log, evlog>>

(* ------------------------------ responses ----------------------------- *)
\* The dispatcher receives the response to the outstanding request, frees the
\* slot and invokes the request's continuation.
received_primary ==
    /\ Running
    /\ pending.func = "primary_cb"
    /\ NumRequests(log) <= MaxPages
    /\ \E resp \in Responses(pending) : primary_cb(resp)
    /\ UNCHANGED <<opts, cancelled, pc, ret, idle, registered, notify, char_data, nevents, evlog>>

received_char ==
    /\ Running
    /\ pending.func = "char_discovered_cb"
    /\ NumRequests(log) <= MaxPages
    /\ \E resp \in Responses(pending) : char_discovered_cb(resp)
    /\ UNCHANGED <<opts, cancelled, pc, ret, idle, registered, notify, nevents, evlog>>

received_desc ==
    /\ Running
    /\ pending.func = "char_desc_cb"
    /\ \E resp \in Responses(pending) : char_desc_cb(resp)
    /\ UNCHANGED <<opts, cancelled, pc, ret, idle, registered, notify, char_data, nevents, evlog>>

received_read ==
    /\ Running
    /\ pending.func = "char_read_cb"
    /\ \E resp \in Responses(pending) : char_read_cb(resp)
    /\ UNCHANGED <<opts, cancelled, pc, ret, idle, registered, notify, char_data, nevents, evlog>>

(* -------------------------------- events ------------------------------ *)
\* 1 when the PDU is handled while a request is outstanding, else 0
Outstanding == IF pending # NoReq THEN 1 ELSE 0

\* mutants: nothing is acknowledged; everything is
NeedsConfirmation_never(op) == FALSE
NeedsConfirmation_always(op) == TRUE

\* whether the handler acknowledges the PDU it has printed
NeedsConfirmation(op) == op # "HANDLE_NOTIFY"

\* mutant: the confirmation is sent as a request, which takes the slot of the
\* outstanding request
events_handler_asRequest(op) ==
    IF op \notin {"HANDLE_NOTIFY", "HANDLE_IND"}
    THEN evlog' = Append(evlog, Line("inv", 0, 0)) /\ UNCHANGED pending
    ELSE LET shown == Append(evlog, Line(IF op = "HANDLE_NOTIFY" THEN "ntf" ELSE "ind",
                                         0, Outstanding))
         IN  IF NeedsConfirmation(op)
             THEN /\ pending' = Req("HANDLE_CNF", 0, 0, "none")
                  /\ evlog' = Append(shown, Line("HANDLE_CNF", 0, 0))
             ELSE evlog' = shown /\ UNCHANGED pending

events_handler(op) ==
    IF op \notin {"HANDLE_NOTIFY", "HANDLE_IND"}
    THEN evlog' = Append(evlog, Line("inv", 0, 0)) /\ UNCHANGED pending
    ELSE LET shown == Append(evlog, Line(IF op = "HANDLE_NOTIFY" THEN "ntf" ELSE "ind",
                                         0, Outstanding))
             olen == enc_confirmation
             r == g_attrib_send(pending, shown, Req("HANDLE_CNF", 0, 0, "none"))
         IN  IF NeedsConfirmation(op) /\ olen > 0
             THEN pending' = r.pending /\ evlog' = r.log
             ELSE evlog' = shown /\ UNCHANGED pending

\* an unsolicited PDU whose opcode has a registered handler
received_event ==
    /\ Running
    /\ nevents < MaxEvents
    /\ nevents' = nevents + 1
    /\ registered
    /\ \E op \in {"HANDLE_NOTIFY", "HANDLE_IND"} : events_handler(op)
    /\ UNCHANGED <<opts, cancelled, pc, ret, idle, quit, registered, notify, char_data, log>>

\* an unsolicited PDU no handler is registered for
discarded_event ==
    /\ Running
    /\ \E op \in EventOps : ~(registered /\ op \in {"HANDLE_NOTIFY", "HANDLE_IND"})
    /\ UNCHANGED vars

Next ==
    \/ main
    \/ main_exit
    \/ listen_start
    \/ primary
    \/ characteristics
    \/ cancel
    \/ characteristics_desc
    \/ characteristics_read
    \/ characteristics_write
    \/ mainloop_quit
    \/ received_primary
    \/ received_char
    \/ received_desc
    \/ received_read
    \/ received_event
    \/ discarded_event

Spec == Init /\ [][Next]_vars

(* ============================== properties ============================ *)
ResultKinds == {"svc", "chr", "dsc"}

\* the start of the last request before line j of the history
PrevRequestStart(j) ==
    LET I == {i \in 1..(j - 1) : log[i].k \in RequestOps}
    IN  log[CHOOSE i \in I : \A h \in I : h <= i].a

\* the callback of the selected operation has been dispatched
Started == pc # "main" /\ ret = 0 /\ idle = <<>>

\* line j of the history is a response with a status other than success
IsErrorAt(j) == log[j].k = "rsp" /\ log[j].a # 0

(* ---------------------------------------------------------------------- *)
\* C1: in primary-service and characteristic discovery with a valid window,
\* every follow-up request keeps the original end, does not start beyond the
\* original end, and, after a non-empty response, starts at the last entry's
\* handle plus one, which is above the start of the request before it.
C1_PaginationWithinWindow ==
    (opt_mode \in {"primary", "characteristics"} /\ opt_start <= opt_end) =>
        \A j \in 2..Len(log) :
            log[j].k \in RequestOps =>
                /\ log[j].b = opt_end
                /\ log[j].a <= opt_end
                /\ log[j - 1].k \in ResultKinds =>
                       /\ log[j].a = log[j - 1].b + 1
                       /\ log[j].a > PrevRequestStart(j)

(* ---------------------------------------------------------------------- *)
\* C2: in primary-service discovery a response whose last entry ends at 0xFFFF
\* completes the sub-procedure: nothing is requested after it, and no request
\* starts at handle 0x0000.
C2_StopsAtLastHandle ==
    opt_mode = "primary" =>
        /\ \A j \in 1..Len(log) :
               (log[j].k = "svc" /\ log[j].b = UINT16_MAX) =>
                   (j = Len(log) /\ pending = NoReq)
        /\ \A j \in 1..Len(log) : log[j].k \in RequestOps => log[j].a # 0

(* ---------------------------------------------------------------------- *)
\* C3: in primary-service and characteristic discovery an Attribute Not Found
\* error ends the sub-procedure as a success, on the first request or after any
\* number of pages: it is the last line of the history (no failure is reported
\* and nothing is requested after it), no request is left outstanding, a
\* program that does not listen leaves the main loop, and every entry of every
\* page received before it stays printed.
C3_AttrNotFoundCompletes ==
    opt_mode \in {"primary", "characteristics"} =>
        \A j \in 1..Len(log) :
            (log[j].k = "rsp" /\ log[j].a = ATT_ECODE_ATTR_NOT_FOUND) =>
                /\ j = Len(log)
                /\ pending = NoReq
                /\ ~opt_listen => quit
                /\ \A i \in 1..(j - 1) :
                       (log[i].k = "rsp" /\ log[i].b > 0) =>
                           \A h \in 1..log[i].b : log[i + h].k \in ResultKinds

\* Attribute Not Found arrives after a page of results has been printed
C3_Witness ==
    /\ opt_mode \in {"primary", "characteristics"}
    /\ Len(log) >= 4
    /\ log[Len(log)] = Line("rsp", ATT_ECODE_ATTR_NOT_FOUND, 0)
    /\ \E j \in 1..Len(log) : log[j].k \in ResultKinds

C5_DescriptorPagination ==
    opt_mode = "char_desc" =>
        \A j \in 1..Len(log) :
            log[j].k = "rsp" =>
                /\ (log[j].a = 0 /\ log[j].b > 0 /\ log[j + log[j].b].a < opt_end) =>
                       /\ Len(log) > j + log[j].b
                       /\ log[j + log[j].b + 1] =
                              Line("FIND_INFO_REQ", log[j + log[j].b].a + 1, opt_end)
                /\ log[j].a = ATT_ECODE_ATTR_NOT_FOUND => j = Len(log)

(* ---------------------------------------------------------------------- *)
\* C6: every indication given to the event handler is followed, right after
\* the handler has printed it, by exactly one confirmation, also while a
\* request of the selected operation is outstanding.
C6_IndicationConfirmedOnce ==
    /\ \A i \in 1..Len(evlog) :
           evlog[i].k = "ind" =>
               /\ i < Len(evlog)
               /\ evlog[i + 1].k = "HANDLE_CNF"
               /\ i + 1 < Len(evlog) => evlog[i + 2].k # "HANDLE_CNF"
    /\ CountIf(evlog, {"HANDLE_CNF"}) >= CountIf(evlog, {"ind"})

\* an indication handled, and confirmed, while a request is outstanding
C6_Witness ==
    /\ pending # NoReq
    /\ \E i \in 1..Len(evlog) :
           /\ evlog[i] = Line("ind", 0, 1)
           /\ i < Len(evlog)
           /\ evlog[i + 1].k = "HANDLE_CNF"

(* ---------------------------------------------------------------------- *)
\* C7: a confirmation is sent only right after an indication has been printed,
\* never for a notification or for any other unsolicited PDU: there are as many
\* confirmations as indications handled.
C7_ConfirmationOnlyForIndication ==
    /\ \A i \in 1..Len(evlog) :
           evlog[i].k = "HANDLE_CNF" => (i > 1 /\ evlog[i - 1].k = "ind")
    /\ CountIf(evlog, {"HANDLE_CNF"}) = CountIf(evlog, {"ind"})

\* a notification and an indication have both been handled
C7_Witness ==
    /\ \E i \in 1..Len(evlog) : evlog[i].k = "ntf"
    /\ \E i \in 1..Len(evlog) : evlog[i].k = "ind"
    /\ evlog[Len(evlog)].k = "ntf"

(* ---------------------------------------------------------------------- *)
\* Every request of the history but the last has been answered before the
\* next was sent, the dispatcher never refused one as busy, and a request is
\* outstanding exactly when the last one has not been answered.
RequestsAnsweredInTurn ==
    /\ \A i \in 1..Len(log) : \A j \in (i + 1)..Len(log) :
           (log[i].k \in RequestOps /\ log[j].k \in RequestOps) =>
               \E h \in (i + 1)..(j - 1) : log[h].k = "rsp"
    /\ \A i \in 1..Len(log) : log[i].k # "BusyError"
    /\ (pending # NoReq) <=>
           \E i \in 1..Len(log) :
               /\ log[i].k \in RequestOps
               /\ \A h \in (i + 1)..Len(log) : log[h].k # "rsp"

(* ---------------------------------------------------------------------- *)
\* the request a discovery mode starts with
FirstRequestOp ==
    CASE opt_mode = "primary" -> "READ_BY_GROUP_REQ"
      [] opt_mode = "characteristics" -> "READ_BY_TYPE_REQ"
      [] OTHER -> "FIND_INFO_REQ"

InvertedWindow ==
    /\ opt_mode \in {"primary", "characteristics", "char_desc"}
    /\ opt_start > opt_end
    /\ Started

C10_ReadErrorSurfaced ==
    opt_mode = "char_read" =>
        /\ NumRequests(log) <= 1
        /\ (Started /\ opt_handle > 0) =>
               (log # <<>> /\ log[1] = Line("READ_REQ", opt_handle, opt_handle))
        /\ \A j \in 1..Len(log) :
               IsErrorAt(j) =>
                   /\ Len(log) = j + 1
                   /\ log[j + 1] = Line("err", log[j].a, 0)
                   /\ pending = NoReq

\* a read answered with the Error Response Invalid Handle
C10_Witness ==
    /\ opt_mode = "char_read"
    /\ log = <<Line("READ_REQ", opt_handle, opt_handle),
               Line("rsp", ATT_ECODE_INVALID_HANDLE, 0),
               Line("err", ATT_ECODE_INVALID_HANDLE, 0)>>

(* ---------------------------------------------------------------------- *)
\* the bytes of the value given to a write
ValueLen == Len(attr_data_from_string(opt_value.str))

\* C11: a write whose value is longer than the negotiated MTU minus 3 bytes
\* fails with ValueTooLarge before anything is transmitted: no write command
\* carries more than MTU - 3 bytes.
C11_ValueTooLargeRejected ==
    opt_mode = "char_write" =>
        /\ \A i \in 1..Len(log) :
               log[i].k = "WRITE_CMD" => log[i].b <= NegotiatedMTU - 3
        /\ (Started /\ opt_handle > 0 /\ ValueLen > NegotiatedMTU - 3) =>
               (log # <<>> /\ log[1].k = "ValueTooLarge")

(* ---------------------------------------------------------------------- *)
\* line j of the history is a response the decoder rejected
IsDecodeErrorAt(j) == log[j].k = "rsp" /\ log[j].a = 0 /\ log[j].b = -1

\* C12: a response that fails to decode aborts its operation in every mode:
\* no request is sent after it, none is left outstanding, the program that
\* does not listen leaves the main loop and the discovery's data is released.
C12_DecodeErrorAborts ==
    \A j \in 1..Len(log) :
        IsDecodeErrorAt(j) =>
            /\ \A i \in (j + 1)..Len(log) : log[i].k \notin RequestOps
            /\ pending = NoReq
            /\ ~opt_listen => quit
            /\ char_data = NoCharData

(* ---------------------------------------------------------------------- *)
\* the selected operation has handed its first PDU to the dispatcher
Issued == log # <<>> /\ log[1].k \in RequestOps \cup {"WRITE_CMD"}

\* C13: with the listen flag set, the requested operation, once issued, never
\* quits the main loop, in any mode and with any outcome.
C13_ListenNeverQuits ==
    (opt_listen /\ Issued) => ~quit

(* ---------------------------------------------------------------------- *)
\* C14: a step in which the event handler runs (it prints, so the history of
\* events grows) leaves the request state as it was: the outstanding request,
\* the discovery's data, the history of the requests sent and of the results
\* printed, the sources still to dispatch and the state of the main loop.
C14_EventLeavesRequestState ==
    [][evlog' # evlog => UNCHANGED <<pending, char_data, log, idle, quit>>]_vars

\* an indication was handled while a request of a discovery was outstanding,
\* and the discovery has gone on to a later page
C14_Witness ==
    /\ opt_mode \in {"primary", "characteristics"}
    /\ \E i \in 1..Len(evlog) : evlog[i] = Line("ind", 0, 1)
    /\ NumRequests(log) >= 2
    /\ pending # NoReq

(* ---------------------------------------------------------------------- *)
\* the service ranges reported, in the order of their printing
Services == SelectSeq(log, LAMBDA l : l.k = "svc")

\* the primary service discovery has completed successfully
PrimaryCompleted ==
    /\ opt_mode = "primary"
    /\ quit
    /\ log # <<>>
    /\ log[Len(log)] = Line("rsp", ATT_ECODE_ATTR_NOT_FOUND, 0)

\* C15: when a primary service discovery completes successfully, the service
\* ranges it has reported lie within the requested window, each ends after the
\* one before it began and begins after the one before it ended.
C15_ServiceRangesOrdered ==
    PrimaryCompleted =>
        /\ \A i \in 1..Len(Services) :
               /\ opt_start <= Services[i].a
               /\ Services[i].a <= Services[i].b
               /\ Services[i].b <= opt_end
        /\ \A i \in 1..(Len(Services) - 1) : Services[i].b < Services[i + 1].a

(* ---------------------------------------------------------------------- *)
\* the caller abandoned the characteristic discovery after a page was received
CancelledAfterPage ==
    /\ cancelled > 0
    /\ \E i \in 1..cancelled : log[i].k = "rsp" /\ log[i].a = 0 /\ log[i].b > 0

ArgumentFailure == \E i \in 1..Len(log) : log[i].k = "argerr"

\* the selected operation reported a failure
OperationFailed == \E i \in 1..Len(log) : log[i].k \in {"argerr", "err", "protoerr"}

\* C17: the program exits with code 1 on every argument failure (no mode, a
\* handle that is missing or not positive, a value that is missing, empty or
\* unparsable, an MTU below 48) and on a connection failure, and with code 0
\* only when the requested operation has not failed.
C17_ExitCodes ==
    pc = "exited" =>
        /\ ArgumentFailure => ret = 1
        /\ (opt_mode = "none" \/ (opt_mtu # 0 /\ opt_mtu < ATT_MIN_MTU_L2CAP)) => ret = 1
        /\ log = <<>> => ret = 1
        /\ ret = 0 => ~OperationFailed

(* ---------------------------------------------------------------------- *)
\* nothing is left that could make the main loop go on to its end: no source
\* to dispatch, no request outstanding, no destroy notification due
NothingToCome == pc = "running" /\ idle = <<>> /\ pending = NoReq /\ ~notify

\* C18: a run that does not listen ends in quitting the main loop.  As far as
\* a finite run can show it: no callback returns without either a request
\* outstanding or the main loop told to quit, and no request is sent twice (a
\* server that answers by its attribute table answers it the same way again,
\* and the discovery goes round for ever).
C18_EveryRunQuits ==
    ~opt_listen =>
        /\ NothingToCome => quit
        /\ \A i \in 1..Len(log) : \A j \in (i + 1)..Len(log) :
               log[i].k \in RequestOps => log[j] # log[i]

(* ---------------------------------------------------------------------- *)
\* C19: with the listen flag set, the handlers are registered before the
\* first PDU of the selected operation is sent, and no request is outstanding
\* while they are not registered; without the flag no handler is ever
\* registered, none ever runs and no confirmation is ever sent.
C19_HandlersRegisteredFirst ==
    /\ (opt_listen /\ pc = "running" /\ Issued) => registered
    /\ (opt_listen /\ pending # NoReq) => registered
    /\ ~opt_listen => (~registered /\ evlog = <<>>)

\* a listening program with a request outstanding and an indication confirmed
C19_Witness ==
    /\ opt_listen
    /\ registered
    /\ pending # NoReq
    /\ \E i \in 1..Len(evlog) : evlog[i].k = "HANDLE_CNF"
====
